---------------------------- MODULE Spec2Model ----------------------------
(***************************************************************************)
(* Packing List Generator (src/app.py).                                    *)
(*                                                                         *)
(* A Python str is a sequence of one-character strings, so that slicing,   *)
(* substring search and character replacement are computed, not assumed.   *)
(* A pandas missing value (NaN) and Python's None are one-element          *)
(* sequences holding a token that is no character, hence different from    *)
(* every str.                                                              *)
(***************************************************************************)
EXTENDS Integers, Sequences, FiniteSets, TLC

VARIABLES
    pc,          \* position of the script / of the call being modelled
    name,        \* safe_sheet_name: its argument
    sheet,       \* safe_sheet_name: its return value
    columns,     \* guess_col: the header list
    candidates,  \* guess_col: the phrase list
    guess,       \* guess_col: its return value
    df,          \* the uploaded table: a sequence of rows (column -> cell)
    args,        \* the column arguments of make_output_excel
    df2,         \* make_output_excel: the aggregated frame
    written,     \* make_output_excel: the to_excel calls, in order
    index_rows,  \* make_output_excel: index_rows
    book,        \* the workbook in the writer: sheet name -> rows
    result       \* outcome of the call

vars == <<pc, name, sheet, columns, candidates, guess,
          df, args, df2, written, index_rows, book, result>>

None == <<"<None>">>
NaN == <<"<NaN>">>

-----------------------------------------------------------------------------
(* Characters *)

Whitespace == {" ", "\t"}

UpperCase == <<"A","B","C","D","E","F","G","H","I","J","K","L","M",
               "N","O","P","Q","R","S","T","U","V","W","X","Y","Z">>

LowerCase == <<"a","b","c","d","e","f","g","h","i","j","k","l","m",
               "n","o","p","q","r","s","t","u","v","w","x","y","z">>

\* str.lower() on one character
Lower(c) ==
    IF \E i \in 1..Len(UpperCase) : UpperCase[i] = c
    THEN LowerCase[CHOOSE i \in 1..Len(UpperCase) : UpperCase[i] = c]
    ELSE c

\* The character class [:\\/?*\[\]] of safe_sheet_name
Forbidden == {":", "\\", "/", "?", "*", "[", "]"}

\* str.strip(): leading and trailing whitespace removed
RECURSIVE LStrip(_)
LStrip(s) ==
    IF s # <<>> /\ Head(s) \in Whitespace THEN LStrip(Tail(s)) ELSE s

RECURSIVE RStrip(_)
RStrip(s) ==
    IF s # <<>> /\ s[Len(s)] \in Whitespace
    THEN RStrip(SubSeq(s, 1, Len(s) - 1))
    ELSE s

Strip(s) == RStrip(LStrip(s))

\* s[:n]
Prefix(s, n) == SubSeq(s, 1, IF Len(s) < n THEN Len(s) ELSE n)

\* re.sub(r"[:\\/?*\[\]]", "-", s)
SubForbidden(s) == [i \in 1..Len(s) |-> IF s[i] \in Forbidden THEN "-" ELSE s[i]]

\* re.sub(r"\s+", " ", s): every maximal run of whitespace becomes one space
RECURSIVE CollapseWs(_)
CollapseWs(s) ==
    IF s = <<>> THEN <<>>
    ELSE IF Head(s) \in Whitespace
         THEN <<" ">> \o CollapseWs(LStrip(s))
         ELSE <<Head(s)>> \o CollapseWs(Tail(s))

SheetNameMax == 31
SheetFallback == <<"S","h","e","e","t">>

safe_sheet_name_notrunc(n) ==
    LET s == Strip(SubForbidden(n)) IN IF s # <<>> THEN s ELSE SheetFallback

safe_sheet_name(n) ==
    LET s == Strip(SubForbidden(n))
    IN  Prefix(IF s # <<>> THEN s ELSE SheetFallback, SheetNameMax)

normalize(s) ==
    LET t == Strip(CollapseWs(s)) IN [i \in 1..Len(t) |-> Lower(t[i])]

\* Python's `phrase in cn` on strings
Contains(cn, phrase) ==
    \E i \in 1..(Len(cn) - Len(phrase) + 1) :
        SubSeq(cn, i, i + Len(phrase) - 1) = phrase

\* The keys of cols_norm in iteration order: a dict keeps each key at the
\* place of its first insertion.
RECURSIVE DictKeys(_)
DictKeys(cols) ==
    IF cols = <<>> THEN <<>>
    ELSE LET init == DictKeys(SubSeq(cols, 1, Len(cols) - 1))
             c == cols[Len(cols)]
         IN  IF \E i \in 1..Len(init) : init[i] = c THEN init ELSE Append(init, c)

\* The inner loop of guess_col: the first key whose normalized form holds phrase
RECURSIVE FirstHolding(_, _)
FirstHolding(keys, phrase) ==
    IF keys = <<>> THEN None
    ELSE IF Contains(normalize(Head(keys)), phrase) THEN Head(keys)
         ELSE FirstHolding(Tail(keys), phrase)

\* A header-major variant: the first key that holds any of the phrases
RECURSIVE guess_col_header_major(_, _)
guess_col_header_major(cols, cands) ==
    IF cols = <<>> THEN None
    ELSE IF \E j \in 1..Len(cands) : Contains(normalize(Head(cols)), cands[j])
         THEN Head(cols)
         ELSE guess_col_header_major(Tail(cols), cands)

RECURSIVE guess_col(_, _)
guess_col(cols, cands) ==
    IF cands = <<>> THEN None
    ELSE LET c == FirstHolding(DictKeys(cols), Head(cands))
         IN  IF c # None THEN c ELSE guess_col(cols, Tail(cands))

-----------------------------------------------------------------------------
(* Ordering of Python values: str by code point, tuples lexicographically *)

\* The characters in code-point order
CodePoints == <<"\t", " ", "*", "-", "/",
                "0","1","2","3","4","5","6","7","8","9", ":", "?">>
              \o UpperCase \o <<"[", "\\", "]">> \o LowerCase

Code(c) ==
    IF \E i \in 1..Len(CodePoints) : CodePoints[i] = c
    THEN CHOOSE i \in 1..Len(CodePoints) : CodePoints[i] = c
    ELSE 0

RECURSIVE StrLess(_, _)
StrLess(a, b) ==
    IF b = <<>> THEN FALSE
    ELSE IF a = <<>> THEN TRUE
    ELSE IF Head(a) = Head(b) THEN StrLess(Tail(a), Tail(b))
    ELSE Code(Head(a)) < Code(Head(b))

\* Tuples of str, compared as Python compares tuples
RECURSIVE KeyLess(_, _)
KeyLess(k, l) ==
    IF l = <<>> THEN FALSE
    ELSE IF k = <<>> THEN TRUE
    ELSE IF Head(k) = Head(l) THEN KeyLess(Tail(k), Tail(l))
    ELSE StrLess(Head(k), Head(l))

\* The keys of a set in ascending order
RECURSIVE SortedKeys(_)
SortedKeys(S) ==
    IF S = {} THEN <<>>
    ELSE LET m == CHOOSE k \in S : \A l \in S \ {k} : KeyLess(k, l)
         IN  <<m>> \o SortedKeys(S \ {m})

-----------------------------------------------------------------------------
(* make_output_excel *)

NoColumn == "(none)"

\* dropna on the first column of the subset only
DropNaFirstColumn(rows, subset) == SelectSeq(rows, LAMBDA r : r[subset[1]] # NaN)

\* df.dropna(subset=...), on the rows
DropNa(rows, subset) ==
    SelectSeq(rows, LAMBDA r : \A i \in 1..Len(subset) : r[subset[i]] # NaN)

Digits == <<"0","1","2","3","4","5","6","7","8","9">>
IsDigit(c) == \E i \in 1..10 : Digits[i] = c
DigitVal(c) == (CHOOSE i \in 1..10 : Digits[i] = c) - 1

RECURSIVE ParseDigits(_)
ParseDigits(s) ==
    IF s = <<>> THEN 0
    ELSE 10 * ParseDigits(SubSeq(s, 1, Len(s) - 1)) + DigitVal(s[Len(s)])

IsDigits(s) == s # <<>> /\ \A i \in 1..Len(s) : IsDigit(s[i])

\* Whether pd.to_numeric parses the cell, for the integer literals: an
\* optional minus sign, then digits. Under errors="coerce" a cell it does not
\* parse becomes NaN.
Numeric(cell) ==
    /\ cell # NaN
    /\ \/ IsDigits(cell)
       \/ cell # <<>> /\ Head(cell) = "-" /\ IsDigits(Tail(cell))

ToNumeric(cell) ==
    IF Head(cell) = "-" THEN 0 - ParseDigits(Tail(cell)) ELSE ParseDigits(cell)

\* pd.to_numeric(df[qty_col], errors="coerce").fillna(0) on one cell
Coerce(cell) == IF Numeric(cell) THEN ToNumeric(cell) ELSE 0

\* lines 40-41: the rows of the cleaned frame
Cleaned(t, a) ==
    LET kept == DropNa(t.rows, <<a.class_col, a.lesson_col, a.item_col>>)
    IN  [i \in 1..Len(kept) |->
            [kept[i] EXCEPT ![a.qty_col] = Coerce(kept[i][a.qty_col])]]

\* lines 45-48: the optional columns that get a "first" aggregation
FirstCols(t, a) ==
    {c \in {a.size_col, a.uom_col} :
        c # NoColumn /\ \E i \in 1..Len(t.cols) : t.cols[i] = c}

\* agg "first" where "sum" is meant
SumTakesFirst(rows, c) == IF rows = <<>> THEN 0 ELSE rows[1][c]

RECURSIVE Sum(_, _)
Sum(rows, c) == IF rows = <<>> THEN 0 ELSE rows[1][c] + Sum(Tail(rows), c)

\* The value of the group's first row, missing or not
FirstOfFirstRow(rows, c) == IF rows = <<>> THEN NaN ELSE rows[1][c]

\* GroupBy.first: the first value of the group that is not missing, and
\* missing when every value of the group is
RECURSIVE First(_, _)
First(rows, c) ==
    IF rows = <<>> THEN NaN
    ELSE IF rows[1][c] # NaN THEN rows[1][c] ELSE First(Tail(rows), c)

Key3(r, a) == <<r[a.class_col], r[a.lesson_col], r[a.item_col]>>
Key2(r, a) == <<r[a.class_col], r[a.lesson_col]>>

\* line 50: df.groupby(group_cols, as_index=False).agg(agg); the groups come
\* in ascending key order, each group's rows in the frame's row order
Aggregate(t, a) ==
    LET cl == Cleaned(t, a)
        keys == SortedKeys({Key3(cl[i], a) : i \in 1..Len(cl)})
        cols == {a.class_col, a.lesson_col, a.item_col, a.qty_col}
                    \cup FirstCols(t, a)
    IN  [k \in 1..Len(keys) |->
            LET g == SelectSeq(cl, LAMBDA r : Key3(r, a) = keys[k])
            IN  [c \in cols |->
                    IF c = a.qty_col THEN Sum(g, c)
                    ELSE IF c \in FirstCols(t, a) THEN First(g, c)
                    ELSE g[1][c]]]

\* lines 60-69: the columns of a sheet, under their new names
OutNames(t, a) ==
    {"Item", "Quantity"}
        \cup (IF a.size_col \in FirstCols(t, a) THEN {"Size"} ELSE {})
        \cup (IF a.uom_col \in FirstCols(t, a) THEN {"Unit/Notes"} ELSE {})

OutRow(r, t, a) ==
    [n \in OutNames(t, a) |->
        CASE n = "Item" -> r[a.item_col]
          [] n = "Quantity" -> r[a.qty_col]
          [] n = "Size" -> r[a.size_col]
          [] n = "Unit/Notes" -> r[a.uom_col]]

\* sort_values(by=item_col, ascending=False)
OutDescending(g, t, a) ==
    LET items == SortedKeys({<<g[i][a.item_col]>> : i \in 1..Len(g)})
        n == Len(items)
    IN  [k \in 1..n |->
            LET r == CHOOSE r \in {g[i] : i \in 1..Len(g)} :
                        r[a.item_col] = items[n + 1 - k][1]
            IN  [c \in OutNames(t, a) |->
                    CASE c = "Item" -> r[a.item_col]
                      [] c = "Quantity" -> r[a.qty_col]
                      [] c = "Size" -> r[a.size_col]
                      [] c = "Unit/Notes" -> r[a.uom_col]]]

\* g[out_cols].sort_values(by=item_col).rename(...)
Out(g, t, a) ==
    LET items == SortedKeys({<<g[i][a.item_col]>> : i \in 1..Len(g)})
    IN  [k \in 1..Len(items) |->
            LET r == CHOOSE r \in {g[i] : i \in 1..Len(g)} : r[a.item_col] = items[k][1]
            IN  OutRow(r, t, a)]

Dash == <<" ", "-", " ">>

\* lines 57-72: one to_excel call and one index row per (class, lesson) group
\* of df2, the groups in ascending key order
Writes(agg, t, a) ==
    LET pairs == SortedKeys({Key2(agg[i], a) : i \in 1..Len(agg)})
    IN  [k \in 1..Len(pairs) |->
            LET g == SelectSeq(agg, LAMBDA r : Key2(r, a) = pairs[k])
                out == Out(g, t, a)
            IN  [Class |-> pairs[k][1], Lesson |-> pairs[k][2],
                 Sheet |-> safe_sheet_name(pairs[k][1] \o Dash \o pairs[k][2]),
                 out |-> out]]

IndexRows(ws) ==
    [k \in 1..Len(ws) |->
        [Class |-> ws[k].Class, Lesson |-> ws[k].Lesson,
         Sheet |-> ws[k].Sheet, Items |-> Len(ws[k].out)]]

\* DataFrame.to_excel(writer, sheet_name=...) with the openpyxl engine in
\* write mode: a new name makes a new sheet; a name the book already holds
\* gets the frame's cells written over that sheet's cells, and the rows of
\* the older frame below the new one stay.
ToExcel(b, sheet_name, rows) ==
    IF sheet_name \in DOMAIN b
    THEN LET old == b[sheet_name]
             n == IF Len(old) > Len(rows) THEN Len(old) ELSE Len(rows)
         IN  [b EXCEPT ![sheet_name] =
                [i \in 1..n |-> IF i <= Len(rows) THEN rows[i] ELSE old[i]]]
    ELSE (sheet_name :> rows) @@ b

RECURSIVE WriteAll(_, _)
WriteAll(b, ws) ==
    IF ws = <<>> THEN b
    ELSE WriteAll(ToExcel(b, ws[1].Sheet, ws[1].out), Tail(ws))

INDEX == <<"I", "N", "D", "E", "X">>

\* line 74: pd.DataFrame(index_rows).sort_values(["Class", "Lesson"])
SortedIndex(rows) ==
    LET keys == SortedKeys({<<rows[i].Class, rows[i].Lesson>> : i \in 1..Len(rows)})
    IN  [k \in 1..Len(keys) |->
            CHOOSE r \in {rows[i] : i \in 1..Len(rows)} :
                <<r.Class, r.Lesson>> = keys[k]]

EmptyBook == [n \in {} |-> <<>>]
-----------------------------------------------------------------------------
(* The inputs of safe_sheet_name *)

MaxAffix == 1

RECURSIVE Strings(_, _)
Strings(chars, n) ==
    IF n = 0 THEN {<<>>}
    ELSE LET shorter == Strings(chars, n - 1)
         IN  shorter \cup {Append(s, c) : s \in shorter, c \in chars}

NameChars == Forbidden \cup Whitespace \cup {"a", "-"}

\* The lengths of the filling of a name, around the sheet-name limit
FillLens == {0, 1, SheetNameMax - 2, SheetNameMax - 1, SheetNameMax, SheetNameMax + 1}

Fill(k) == [i \in 1..k |-> "x"]

\* "Art: Intro - Unit 1/2"
ArtName ==
    <<"A","r","t",":"," ","I","n","t","r","o"," ","-"," ","U","n","i",
      "t"," ","1","/","2">>

\* "Art- Intro - Unit 1-2"
ArtSheet ==
    <<"A","r","t","-"," ","I","n","t","r","o"," ","-"," ","U","n","i",
      "t"," ","1","-","2">>

Names ==
    {pre \o Fill(k) \o suf :
        pre \in Strings(NameChars, MaxAffix),
        k \in FillLens,
        suf \in Strings(NameChars, MaxAffix)}
    \cup {ArtName}

-----------------------------------------------------------------------------
(* The inputs of guess_col *)

MaxHeaders == 2
MaxPhrases == 2

\* "Course Name"
H_CourseName ==
    <<"C","o","u","r","s","e"," ","N","a","m","e">>

\* "Activity"
H_Activity ==
    <<"A","c","t","i","v","i","t","y">>

\* "Item Description"
H_ItemDescription ==
    <<"I","t","e","m"," ","D","e","s","c","r","i","p","t","i","o","n">>

\* "Per Section Total"
H_PerSectionTotal ==
    <<"P","e","r"," ","S","e","c","t","i","o","n"," ","T","o","t","a",
      "l">>

\* "Size"
H_Size ==
    <<"S","i","z","e">>

\* "UOM"
H_UOM ==
    <<"U","O","M">>

\* "Lesson Plan"
H_LessonPlan ==
    <<"L","e","s","s","o","n"," ","P","l","a","n">>

\* "Unit"
H_Unit ==
    <<"U","n","i","t">>

\* "ITEM \tDescription"
H_ItemTabDescription ==
    <<"I","T","E","M"," ","\t","D","e","s","c","r","i","p","t","i","o",
      "n">>

\* "Class Size"
H_ClassSize ==
    <<"C","l","a","s","s"," ","S","i","z","e">>

\* The header list of the inferDefaults scenario
ScenarioHeaders ==
    <<H_CourseName, H_Activity, H_ItemDescription, H_PerSectionTotal, H_Size, H_UOM>>

HeaderPool ==
    {H_CourseName, H_Size, H_UOM, H_LessonPlan, H_Unit, H_ItemTabDescription,
     H_ClassSize, H_PerSectionTotal}

RECURSIVE Lists(_, _)
Lists(S, n) ==
    IF n = 0 THEN {<<>>}
    ELSE LET shorter == Lists(S, n - 1)
         IN  shorter \cup {Append(l, x) : l \in shorter, x \in S}

HeaderLists == Lists(HeaderPool, MaxHeaders) \cup {ScenarioHeaders}

\* "class"
P_class ==
    <<"c","l","a","s","s">>

\* "course"
P_course ==
    <<"c","o","u","r","s","e">>

\* "program"
P_program ==
    <<"p","r","o","g","r","a","m">>

\* "lesson"
P_lesson ==
    <<"l","e","s","s","o","n">>

\* "module"
P_module ==
    <<"m","o","d","u","l","e">>

\* "unit"
P_unit ==
    <<"u","n","i","t">>

\* "activity"
P_activity ==
    <<"a","c","t","i","v","i","t","y">>

\* "item description"
P_item_description ==
    <<"i","t","e","m"," ","d","e","s","c","r","i","p","t","i","o","n">>

\* "item"
P_item ==
    <<"i","t","e","m">>

\* "product"
P_product ==
    <<"p","r","o","d","u","c","t">>

\* "material"
P_material ==
    <<"m","a","t","e","r","i","a","l">>

\* "supply"
P_supply ==
    <<"s","u","p","p","l","y">>

\* "per section total"
P_per_section_total ==
    <<"p","e","r"," ","s","e","c","t","i","o","n"," ","t","o","t","a",
      "l">>

\* "needed"
P_needed ==
    <<"n","e","e","d","e","d">>

\* "quantity"
P_quantity ==
    <<"q","u","a","n","t","i","t","y">>

\* "qty"
P_qty ==
    <<"q","t","y">>

\* "total"
P_total ==
    <<"t","o","t","a","l">>

\* "size"
P_size ==
    <<"s","i","z","e">>

\* "unit of measure"
P_unit_of_measure ==
    <<"u","n","i","t"," ","o","f"," ","m","e","a","s","u","r","e">>

\* "uom"
P_uom ==
    <<"u","o","m">>

\* "units"
P_units ==
    <<"u","n","i","t","s">>

\* lines 124-131: the phrase lists of the six roles
ClassPhrases == <<P_class, P_course, P_program>>
LessonPhrases == <<P_lesson, P_module, P_unit, P_activity>>
ItemPhrases == <<P_item_description, P_item, P_product, P_material, P_supply>>
QtyPhrases == <<P_per_section_total, P_needed, P_quantity, P_qty, P_total>>
SizePhrases == <<P_size>>
UomPhrases == <<P_unit_of_measure, P_uom, P_units, P_unit>>

RolePhrases ==
    {ClassPhrases, LessonPhrases, ItemPhrases, QtyPhrases, SizePhrases, UomPhrases}

PhrasePool == {P_unit, P_lesson, P_size, P_item_description}

PhraseLists == Lists(PhrasePool, MaxPhrases) \cup RolePhrases

-----------------------------------------------------------------------------
(* The tables and the column arguments *)

MaxRows == 3

TableCols == <<"Class", "Lesson", "Item", "Qty", "Size", "UOM">>

Row(c, l, i, q, s, u) ==
    [col \in {"Class", "Lesson", "Item", "Qty", "Size", "UOM"} |->
        CASE col = "Class" -> c
          [] col = "Lesson" -> l
          [] col = "Item" -> i
          [] col = "Qty" -> q
          [] col = "Size" -> s
          [] col = "UOM" -> u]

Table(rows) == [cols |-> TableCols, rows |-> rows]

Args(c, l, i, q, s, u) ==
    [class_col |-> c, lesson_col |-> l, item_col |-> i, qty_col |-> q,
     size_col |-> s, uom_col |-> u]

\* The rows of the aggregation runs: an identity cell may be missing, the
\* quantity may be missing, a number or text
AggIdentities ==
    {<<<<"A">>, <<"L">>, <<"x">>>>, <<<<"A">>, <<"L">>, <<"y">>>>,
     <<NaN, <<"L">>, <<"x">>>>, <<<<"A">>, NaN, <<"x">>>>, <<<<"A">>, <<"L">>, NaN>>}

AggRows ==
    {Row(k[1], k[2], k[3], q, NaN, NaN) :
        k \in AggIdentities, q \in {NaN, <<"3">>, <<"2">>, <<"a", "b", "c">>}}

AggArgs == {Args("Class", "Lesson", "Item", "Qty", NoColumn, NoColumn)}

\* The rows of the optional-column runs: the Size and UOM cells vary, one
\* row has no class
OptRows ==
    {Row(<<"A">>, <<"L">>, i, <<"1">>, su[1], su[2]) :
        i \in {<<"x">>, <<"y">>},
        su \in {<<NaN, NaN>>, <<<<"S">>, NaN>>, <<<<"M">>, <<"k", "g">>>>,
                <<NaN, <<"k", "g">>>>}}
    \cup {Row(NaN, <<"L">>, <<"x">>, <<"1">>, <<"S">>, <<"k", "g">>)}

\* "Ghost" is a column the table does not have
OptArgs ==
    {Args("Class", "Lesson", "Item", "Qty", su[1], su[2]) :
        su \in {<<"Size", "UOM">>, <<"Size", NoColumn>>, <<"Ghost", "UOM">>,
                <<NoColumn, "Ghost">>}}

\* The rows of the workbook runs: classes whose sheet names collide after
\* the character replacement ("A:" and "A/") or after the cut to 31
\* characters (31 x's, then "1" or "2"), and classes whose names do not
BookClasses ==
    {NaN, <<"A", ":">>, <<"A", "/">>, <<"B">>,
     Append(Fill(SheetNameMax), "1"), Append(Fill(SheetNameMax), "2")}

BookRows ==
    {Row(c, <<"L">>, i, <<"1">>, NaN, NaN) :
        c \in BookClasses, i \in {<<"x">>, <<"y">>}}

BookArgs == AggArgs

\* The uploads of the script runs: no row, one full row, a row of empty
\* cells only, and a row without a lesson followed by one without a class.
\* The UOM column is empty in all of them.
UiTables ==
    LET full == Row(<<"A">>, <<"L">>, <<"x">>, <<"3">>, <<"S">>, NaN)
        noclass == Row(NaN, <<"L">>, <<"x">>, <<"3">>, <<"S">>, NaN)
        blank == Row(NaN, NaN, NaN, NaN, NaN, NaN)
        nolesson == Row(<<"A">>, NaN, <<"x">>, <<"3">>, <<"S">>, NaN)
    IN  {Table(<<>>), Table(<<full>>), Table(<<blank>>), Table(<<nolesson, noclass>>)}

\* line 112: df.dropna(axis=1, how="all")
DropEmptyColumns(t) ==
    LET keep == SelectSeq(t.cols,
                    LAMBDA c : \E i \in 1..Len(t.rows) : t.rows[i][c] # NaN)
        names == {keep[j] : j \in 1..Len(keep)}
    IN  [cols |-> keep,
         rows |-> [i \in 1..Len(t.rows) |-> [c \in names |-> t.rows[i][c]]]]

ColSet(t) == {t.cols[j] : j \in 1..Len(t.cols)}

\* lines 135-143: what the six select boxes can hold
Selections(t) ==
    {Args(c, l, i, q, s, u) :
        c \in ColSet(t), l \in ColSet(t), i \in ColSet(t), q \in ColSet(t),
        s \in ColSet(t) \cup {NoColumn}, u \in ColSet(t) \cup {NoColumn}}

NoTable == [cols |-> <<>>, rows |-> <<>>]
NoArgs == Args(NoColumn, NoColumn, NoColumn, NoColumn, NoColumn, NoColumn)

-----------------------------------------------------------------------------
(* Actions *)

\* lines 20-22
SafeSheetName ==
    /\ pc = "safe_sheet_name"
    /\ sheet' = safe_sheet_name(name)
    /\ pc' = "returned"
    /\ UNCHANGED <<name, columns, candidates, guess,
                   df, args, df2, written, index_rows, book, result>>

\* lines 27-37
GuessCol ==
    /\ pc = "guess_col"
    /\ guess' = guess_col(columns, candidates)
    /\ pc' = "returned"
    /\ UNCHANGED <<name, sheet, columns, candidates,
                   df, args, df2, written, index_rows, book, result>>

RequiredDistinct(a) ==
    Cardinality({a.class_col, a.lesson_col, a.item_col, a.qty_col}) = 4

\* The six roles name different columns (the optional ones where given)
AllDistinct(a) ==
    /\ RequiredDistinct(a)
    /\ \A c \in {a.size_col, a.uom_col} :
          c = NoColumn \/ c \notin {a.class_col, a.lesson_col, a.item_col, a.qty_col}
    /\ a.size_col = a.uom_col => a.size_col = NoColumn

\* lines 39-76 when at least one group is written: the sheets, then INDEX
MakeOutputExcelReturns ==
    /\ pc = "make_output_excel"
    /\ AllDistinct(args)
    /\ LET agg == Aggregate(df, args)
           ws == Writes(agg, df, args)
       IN  /\ ws # <<>>
           /\ df2' = agg
           /\ written' = ws
           /\ index_rows' = IndexRows(ws)
           /\ book' = ToExcel(WriteAll(EmptyBook, ws), INDEX,
                              SortedIndex(IndexRows(ws)))
    /\ result' = "ok"
    /\ pc' = "returned"
    /\ UNCHANGED <<name, sheet, columns, candidates, guess, df, args>>

\* lines 39-76 when no row survives the cleaning: index_rows stays [], the
\* frame pd.DataFrame([]) has no column "Class" and sort_values raises
\* KeyError; the bytes are never returned
MakeOutputExcelRaises ==
    /\ pc = "make_output_excel"
    /\ AllDistinct(args)
    /\ LET agg == Aggregate(df, args)
           ws == Writes(agg, df, args)
       IN  /\ ws = <<>>
           /\ df2' = agg
           /\ written' = ws
           /\ index_rows' = <<>>
           /\ book' = EmptyBook
    /\ result' = "KeyError"
    /\ pc' = "raised"
    /\ UNCHANGED <<name, sheet, columns, candidates, guess, df, args>>

\* lines 39-76 when two of the roles name one column. The function has no
\* check of its own; what pandas does with a column that is grouped twice, or
\* grouped and aggregated, or aggregated twice, is the library's: it raises
\* from inside groupby/agg or goes on to write a workbook, whose content is
\* not modelled.
MakeOutputExcelOverlapping ==
    /\ pc = "make_output_excel"
    /\ ~AllDistinct(args)
    /\ \/ result' = "ValueError" /\ pc' = "raised"
       \/ result' = "ok" /\ pc' = "returned"
    /\ UNCHANGED <<name, sheet, columns, candidates, guess, df, args,
                   df2, written, index_rows, book>>

\* lines 112-116, the sheet has no usable cell: st.error, st.stop
ScriptStopsEmpty ==
    /\ pc = "uploaded"
    /\ LET d == DropEmptyColumns(df)
       IN  /\ Len(d.rows) = 0 \/ Len(d.cols) = 0
           /\ df' = d
    /\ result' = "st.error: empty"
    /\ pc' = "stopped"
    /\ UNCHANGED <<name, sheet, columns, candidates, guess, args,
                   df2, written, index_rows, book>>

\* lines 112-143: the empty columns dropped, the select boxes shown and set
SelectColumns ==
    /\ pc = "uploaded"
    /\ LET d == DropEmptyColumns(df)
       IN  /\ Len(d.rows) # 0 /\ Len(d.cols) # 0
           /\ df' = d
           /\ args' \in Selections(d)
    /\ pc' = "validate"
    /\ UNCHANGED <<name, sheet, columns, candidates, guess,
                   df2, written, index_rows, book, result>>

\* lines 146-149: len(set(required)) < 4: st.error, st.stop
ValidateStops ==
    /\ pc = "validate"
    /\ ~RequiredDistinct(args)
    /\ result' = "st.error: four different columns"
    /\ pc' = "stopped"
    /\ UNCHANGED <<name, sheet, columns, candidates, guess, df, args,
                   df2, written, index_rows, book>>

\* lines 146-160: the selections pass and the button is pressed
GenerateClicked ==
    /\ pc = "validate"
    /\ RequiredDistinct(args)
    /\ pc' = "make_output_excel"
    /\ UNCHANGED <<name, sheet, columns, candidates, guess, df, args,
                   df2, written, index_rows, book, result>>

-----------------------------------------------------------------------------
(* Specifications *)

\* safe_sheet_name on every name of Names
InitSheetName ==
    /\ pc = "safe_sheet_name"
    /\ name \in Names
    /\ sheet = None
    /\ columns = <<>> /\ candidates = <<>> /\ guess = None
    /\ df = NoTable /\ args = NoArgs /\ df2 = <<>> /\ written = <<>>
    /\ index_rows = <<>> /\ book = EmptyBook /\ result = "none"

NextSheetName == SafeSheetName

SpecSheetName == InitSheetName /\ [][NextSheetName]_vars

\* guess_col on every header list and phrase list
InitGuess ==
    /\ pc = "guess_col"
    /\ columns \in HeaderLists
    /\ candidates \in PhraseLists
    /\ guess = None
    /\ name = <<>> /\ sheet = None
    /\ df = NoTable /\ args = NoArgs /\ df2 = <<>> /\ written = <<>>
    /\ index_rows = <<>> /\ book = EmptyBook /\ result = "none"

NextGuess == GuessCol

SpecGuess == InitGuess /\ [][NextGuess]_vars

\* make_output_excel on every table of at most MaxRows rows
InitCore(rows, mappings) ==
    /\ pc = "make_output_excel"
    /\ df \in {Table(r) : r \in Lists(rows, MaxRows)}
    /\ args \in mappings
    /\ df2 = <<>> /\ written = <<>> /\ index_rows = <<>>
    /\ book = EmptyBook /\ result = "none"
    /\ name = <<>> /\ sheet = None
    /\ columns = <<>> /\ candidates = <<>> /\ guess = None

Next == MakeOutputExcelReturns \/ MakeOutputExcelRaises

\* the aggregation runs
Init == InitCore(AggRows, AggArgs)

Spec == Init /\ [][Next]_vars

\* the optional-column runs
InitOpt == InitCore(OptRows, OptArgs)

SpecOpt == InitOpt /\ [][Next]_vars

\* the workbook runs
InitBook == InitCore(BookRows, BookArgs)

SpecBook == InitBook /\ [][Next]_vars

\* the script from the upload on, and make_output_excel called by any caller
\* with any columns of the table
InitUi ==
    /\ \/ pc = "uploaded" /\ df \in UiTables /\ args = NoArgs
       \/ /\ pc = "make_output_excel"
          /\ df \in {DropEmptyColumns(t) : t \in UiTables}
          /\ args \in Selections(df)
    /\ df2 = <<>> /\ written = <<>> /\ index_rows = <<>>
    /\ book = EmptyBook /\ result = "none"
    /\ name = <<>> /\ sheet = None
    /\ columns = <<>> /\ candidates = <<>> /\ guess = None

NextUi ==
    \/ ScriptStopsEmpty
    \/ SelectColumns
    \/ ValidateStops
    \/ GenerateClicked
    \/ MakeOutputExcelReturns
    \/ MakeOutputExcelRaises
    \/ MakeOutputExcelOverlapping

SpecUi == InitUi /\ [][NextUi]_vars

-----------------------------------------------------------------------------
(* Properties *)

Done == pc \in {"returned", "raised"}

\* The raw rows whose class, lesson and item cells are all present
Complete(i) ==
    /\ df.rows[i][args.class_col] # NaN
    /\ df.rows[i][args.lesson_col] # NaN
    /\ df.rows[i][args.item_col] # NaN

CompleteRows == {i \in 1..Len(df.rows) : Complete(i)}

Triple(i) ==
    <<df.rows[i][args.class_col], df.rows[i][args.lesson_col],
      df.rows[i][args.item_col]>>

RowsOf(k) == {i \in CompleteRows : Triple(i) = k}

Least(S) == CHOOSE i \in S : \A j \in S : i <= j

RECURSIVE Total(_)
Total(f) ==
    IF DOMAIN f = {} THEN 0
    ELSE LET i == CHOOSE i \in DOMAIN f : TRUE
         IN  f[i] + Total([j \in DOMAIN f \ {i} |-> f[j]])

\* What a quantity cell of the aggregation runs counts for: "3" is 3, "2" is
\* 2, and a missing cell and the text "abc" are 0
QuantityOf(cell) ==
    CASE cell = <<"3">> -> 3
      [] cell = <<"2">> -> 2
      [] OTHER -> 0

TotalOf(k) == Total([i \in RowsOf(k) |-> QuantityOf(df.rows[i][args.qty_col])])

\* C2: for every (class, lesson, item) triple of a cleaned row, df2 holds one
\* record of that triple, its quantity and the Quantity written to the
\* triple's sheet are the sum of the coerced quantities of the cleaned rows
\* with that triple (missing and unparseable cells counting 0), and no
\* quantity cell makes the call fail.
C2_SumOfCoercedQuantities ==
    Done =>
        /\ \A i \in CompleteRows :
              LET k == Triple(i)
              IN  /\ Cardinality({n \in 1..Len(df2) : Key3(df2[n], args) = k}) = 1
                  /\ \A n \in 1..Len(df2) :
                        Key3(df2[n], args) = k => df2[n][args.qty_col] = TotalOf(k)
                  /\ \E w \in 1..Len(written) :
                        /\ written[w].Class = k[1]
                        /\ written[w].Lesson = k[2]
                        /\ \E m \in 1..Len(written[w].out) :
                              /\ written[w].out[m]["Item"] = k[3]
                              /\ written[w].out[m]["Quantity"] = TotalOf(k)
        /\ CompleteRows # {} => result = "ok"

\* The rows (Math, L1, Pencil) with "3", "2" and "abc" of the spec, here
\* (A, L, x): one record, of quantity 5
C2_Witness ==
    /\ pc = "returned"
    /\ Len(df.rows) = 3
    /\ \A i \in 1..3 : Triple(i) = <<<<"A">>, <<"L">>, <<"x">>>>
    /\ df.rows[1]["Qty"] = <<"3">>
    /\ df.rows[2]["Qty"] = <<"2">>
    /\ df.rows[3]["Qty"] = <<"a", "b", "c">>
    /\ Len(df2) = 1
    /\ df2[1]["Qty"] = 5

\* C3: the triples of df2 are exactly the triples of the raw rows whose
\* three identity cells are present, whatever their quantity cell; a row with
\* a missing identity cell adds no record, no sheet, no sheet row, nothing to
\* a sum and nothing to an Items count.
C3_IncompleteRowsContributeNothing ==
    Done =>
        /\ {Key3(df2[n], args) : n \in 1..Len(df2)} = {Triple(i) : i \in CompleteRows}
        /\ \A n \in 1..Len(df2) :
              df2[n][args.qty_col] = TotalOf(Key3(df2[n], args))
        /\ {<<written[w].Class, written[w].Lesson>> : w \in 1..Len(written)}
              = {<<Triple(i)[1], Triple(i)[2]>> : i \in CompleteRows}
        /\ \A w \in 1..Len(written) :
              {written[w].out[m]["Item"] : m \in 1..Len(written[w].out)}
                 = {Triple(i)[3] : i \in {j \in CompleteRows :
                        /\ Triple(j)[1] = written[w].Class
                        /\ Triple(j)[2] = written[w].Lesson}}
        /\ Len(index_rows) = Len(written)
        /\ \A n \in 1..Len(index_rows) :
              index_rows[n].Items =
                 Cardinality({Triple(i)[3] : i \in {j \in CompleteRows :
                        /\ Triple(j)[1] = index_rows[n].Class
                        /\ Triple(j)[2] = index_rows[n].Lesson}})

\* A row without a class and with the quantity "3", then a full row whose
\* quantity is text: one record, of quantity 0, on one sheet of one item
C3_Witness ==
    /\ pc = "returned"
    /\ Len(df.rows) = 2
    /\ df.rows[1]["Class"] = NaN
    /\ df.rows[1]["Qty"] = <<"3">>
    /\ Complete(2)
    /\ df.rows[2]["Qty"] = <<"a", "b", "c">>
    /\ Len(df2) = 1
    /\ df2[1]["Qty"] = 0
    /\ Len(index_rows) = 1
    /\ index_rows[1].Items = 1

\* Whether an optional column was asked for and is a column of the table
Requested(c) == c # NoColumn
Present(c) == Requested(c) /\ c \in ColSet(df)

\* The cell of column c in the first cleaned row of the triple
FirstRowCell(k, c) == df.rows[Least(RowsOf(k))][c]

\* The first cell of column c that is not missing among the cleaned rows of
\* the triple, in row order; missing when they all are
FirstPresentCell(k, c) ==
    LET some == {i \in RowsOf(k) : df.rows[i][c] # NaN}
    IN  IF some = {} THEN NaN ELSE df.rows[Least(some)][c]

\* The sheet row of a record of df2
SheetRowOf(n) ==
    LET w == CHOOSE w \in 1..Len(written) :
                 /\ written[w].Class = df2[n][args.class_col]
                 /\ written[w].Lesson = df2[n][args.lesson_col]
        m == CHOOSE m \in 1..Len(written[w].out) :
                 written[w].out[m]["Item"] = df2[n][args.item_col]
    IN  written[w].out[m]

GroupOf(c, l) == {i \in CompleteRows : Triple(i)[1] = c /\ Triple(i)[2] = l}

C1_IndexRowsEqualSheets ==
    result = "ok" =>
        /\ INDEX \in DOMAIN book
        /\ Len(book[INDEX]) = Cardinality(DOMAIN book \ {INDEX})

\* C5: when no row survives the cleaning, the call returns a workbook whose
\* only sheet is INDEX, with no row.
C5_TotalOnZeroGroups ==
    (Done /\ CompleteRows = {}) =>
        /\ result = "ok"
        /\ DOMAIN book = {INDEX}
        /\ book[INDEX] = <<>>

\* C6: when the call returns its bytes with nothing else said, no two
\* (class, lesson) groups of the workbook share a sheet name. (The call has
\* no other way to end than returning the bytes or raising.)
C6_NoSilentCollision ==
    result = "ok" =>
        \A i, j \in 1..Len(index_rows) :
            i # j => index_rows[i].Sheet # index_rows[j].Sheet

\* C4: make_output_excel called with required columns that are not four
\* different columns fails with InvalidMapping and makes no workbook.
C4_InvalidMappingRejected ==
    (Done /\ ~RequiredDistinct(args)) =>
        /\ result = "InvalidMapping"
        /\ book = EmptyBook

\* The claimed replacement of one character
Replaced(c) ==
    IF c \in {":", "\\", "/", "?", "*", "[", "]"} THEN "-" ELSE c

Greatest(S) == CHOOSE i \in S : \A j \in S : j <= i

\* C8: the sheet name is not empty, has at most 31 characters and none of
\* : \ / ? * [ ]; it is the first 31 characters of the name with each of
\* those characters replaced by "-" and then trimmed, or of "Sheet" when that
\* is empty; "Art: Intro - Unit 1/2" gives "Art- Intro - Unit 1-2".
C8_SafeSheetName ==
    pc = "returned" =>
        /\ sheet # <<>>
        /\ Len(sheet) <= 31
        /\ \A i \in 1..Len(sheet) : sheet[i] \notin {":", "\\", "/", "?", "*", "[", "]"}
        /\ LET r == [i \in 1..Len(name) |-> Replaced(name[i])]
               inner == {i \in 1..Len(r) : r[i] \notin Whitespace}
               \* r from its first to its last character that is no whitespace
               t == IF inner = {} THEN <<>>
                    ELSE [i \in 1..(Greatest(inner) - Least(inner) + 1) |->
                             r[Least(inner) + i - 1]]
               full == IF t = <<>> THEN <<"S", "h", "e", "e", "t">> ELSE t
           IN  /\ Len(sheet) = (IF Len(full) < 31 THEN Len(full) ELSE 31)
               /\ \A i \in 1..Len(sheet) : sheet[i] = full[i]
        /\ name = ArtName => sheet = ArtSheet

\* A name of more than 31 characters that starts with whitespace and holds a
\* forbidden character: replaced, trimmed and cut to 31
C8_Witness ==
    /\ pc = "returned"
    /\ Len(name) > 31
    /\ name[1] \in Whitespace
    /\ \E i \in 1..Len(name) : name[i] \in Forbidden
    /\ Len(sheet) = 31
    /\ sheet[1] = "x"

Holds(h, p) == Contains(normalize(h), p)

\* C7: guess_col returns None when no phrase is a substring of a normalized
\* header; otherwise, with p the earliest phrase that is a substring of some
\* normalized header, it returns the first header whose normalized form
\* holds p, so that a later phrase held by an earlier header never wins; the
\* six role lists on the scenario's headers give Course Name, Activity, Item
\* Description, Per Section Total, Size and UOM.
C7_GuessColumn ==
    pc = "returned" =>
        LET P == {j \in 1..Len(candidates) :
                     \E i \in 1..Len(columns) : Holds(columns[i], candidates[j])}
        IN  /\ P = {} => guess = None
            /\ P # {} =>
                  LET p == candidates[Least(P)]
                      H == {i \in 1..Len(columns) : Holds(columns[i], p)}
                  IN  /\ guess = columns[Least(H)]
                      /\ \A i \in 1..Len(columns), j \in 1..Len(candidates) :
                            (j > Least(P) /\ i < Least(H) /\ Holds(columns[i], candidates[j])
                                /\ ~Holds(columns[i], p))
                               => guess # columns[i]
            /\ columns = ScenarioHeaders =>
                  /\ candidates = ClassPhrases => guess = H_CourseName
                  /\ candidates = LessonPhrases => guess = H_Activity
                  /\ candidates = ItemPhrases => guess = H_ItemDescription
                  /\ candidates = QtyPhrases => guess = H_PerSectionTotal
                  /\ candidates = SizePhrases => guess = H_Size
                  /\ candidates = UomPhrases => guess = H_UOM

\* The first header holds only a later phrase, the second header holds the
\* first phrase: the second header is returned
C7_Witness ==
    /\ pc = "returned"
    /\ Len(columns) = 2
    /\ Len(candidates) >= 2
    /\ ~Holds(columns[1], candidates[1])
    /\ Holds(columns[1], candidates[2])
    /\ Holds(columns[2], candidates[1])
    /\ columns[1] # columns[2]
    /\ guess = columns[2]

=============================================================================
